---- MODULE Spec2Model ----
(***************************************************************************)
(* Session state machine of the Hitster trainer (the App component):       *)
(* restore from localStorage, CSV catalog load, shuffle, Reveal / Next /   *)
(* Start New Session, and the persist effect.                              *)
(*                                                                         *)
(* Strings whose characters matter are sequences of one-character strings. *)
(* Array positions are 0-based as in the source: element k of a JS array   *)
(* a is a[k + 1] here.                                                     *)
(***************************************************************************)
EXTENDS Integers, Sequences, FiniteSets, TLC

\* Largest number of data rows in the downloaded CSV.
MaxRows == 3

Min(a, b) == IF a < b THEN a ELSE b

Max(a, b) == IF a > b THEN a ELSE b

(***************************************************************************)
(* shuffle                                                                 *)
(***************************************************************************)

\* Math.floor(Math.random() * i): the position i itself is never drawn.
RandomIndexBelow(i) == 0 .. i - 1

\* Math.floor(Math.random() * (i + 1)): any integer of 0..i.
RandomIndex(i) == 0 .. i

\* Swap with the second write lost: a[i] = a[j] only.
SwapOverwrite(a, i, j) == [a EXCEPT ![i + 1] = a[j + 1]]

\* [a[i], a[j]] = [a[j], a[i]]
Swap(a, i, j) == [a EXCEPT ![i + 1] = a[j + 1], ![j + 1] = a[i + 1]]

\* The loop of shuffle from counter i downwards: the set of arrays it can end with.
RECURSIVE ShuffleLoop(_, _)
ShuffleLoop(a, i) ==
    IF i > 0
    THEN UNION { ShuffleLoop(Swap(a, i, j), i - 1) : j \in RandomIndex(i) }
    ELSE {a}

\* shuffle(arr): the arrays the call can return.
shuffle(arr) == ShuffleLoop(arr, Len(arr) - 1)

\* One call shuffle(arr) as its caller sees it: the array returned and the
\* array arr after the call. The loop writes a, which arr.slice() made a
\* separate array, so arr keeps its elements.
ShuffleCall(arr) ==
    LET a == arr
    IN  { [returned |-> r, arr |-> arr] : r \in ShuffleLoop(a, Len(a) - 1) }

\* mapped.map((_, i) => i)
IndexArray(arr) == [k \in 1 .. Len(arr) |-> k - 1]

(***************************************************************************)
(* CSV rows and their mapping to tracks                                    *)
(***************************************************************************)

Whitespace == {" ", "\t", "\n"}

\* a || b on strings: a unless it is empty.
OrElse(a, b) == IF a # <<>> THEN a ELSE b

\* s.replace(/\s+/g, '')
StripWhitespace(s) == SelectSeq(s, LAMBDA c : c \notin Whitespace)

\* The rows Papa.parse can hand to complete: one record per CSV line, keyed by
\* the header's column names (a cell may be empty).
RawRowSet ==
    { [Artist |-> <<"A">>, artist |-> <<>>, Title |-> <<"T">>, title |-> <<>>,
       URL |-> <<"h", "1">>, Url |-> <<>>, url |-> <<>>,
       Year |-> <<"9">>, year |-> <<>>],
      [Artist |-> <<>>, artist |-> <<"b">>, Title |-> <<>>, title |-> <<>>,
       URL |-> <<>>, Url |-> <<>>, url |-> <<" ", "h", " ", "2", "\n">>,
       Year |-> <<>>, year |-> <<"8">>],
      [Artist |-> <<"C">>, artist |-> <<>>, Title |-> <<"V">>, title |-> <<>>,
       URL |-> <<>>, Url |-> <<" ", "\n">>, url |-> <<>>,
       Year |-> <<>>, year |-> <<>>] }

\* result.data of a finished download.
CsvData == UNION { [1 .. n -> RawRowSet] : n \in 0 .. MaxRows }

\* The callback of data.map: row r at 0-based position i.
MapRow(r, i) ==
    [id     |-> ToString(i + 1),
     Artist |-> OrElse(r.Artist, OrElse(r.artist, <<>>)),
     Title  |-> OrElse(r.Title, OrElse(r.title, <<>>)),
     URL    |-> StripWhitespace(OrElse(r.URL, OrElse(r.Url, OrElse(r.url, <<>>)))),
     Year   |-> OrElse(r.Year, OrElse(r.year, <<>>))]

\* The filter applied before the map: ids number the rows that are kept.
MapRowsFilterFirst(data) ==
    LET kept == SelectSeq(data, LAMBDA r : MapRow(r, 0).URL # <<>>)
    IN  [k \in 1 .. Len(kept) |-> MapRow(kept[k], k - 1)]

\* data.map(...).filter((r) => r.URL)
MapRows(data) ==
    SelectSeq([k \in 1 .. Len(data) |-> MapRow(data[k], k - 1)],
              LAMBDA t : t.URL # <<>>)

(***************************************************************************)
(* localStorage item and JSON                                              *)
(***************************************************************************)

\* A JSON value of a snapshot field: t is its type.
JMissing == [t |-> "missing", n |-> 0, a |-> <<>>]

JString == [t |-> "string", n |-> 0, a |-> <<>>]

JNumber(n) == [t |-> "number", n |-> n, a |-> <<>>]

JArray(a) == [t |-> "array", n |-> 0, a |-> a]

\* What localStorage holds under STORAGE_KEY: no item, the empty string, text
\* that is no JSON, the text null, or the text of an object.
NoItem == [kind |-> "absent", order |-> JMissing, index |-> JMissing, rows |-> JMissing]

EmptyText == [kind |-> "empty", order |-> JMissing, index |-> JMissing, rows |-> JMissing]

Malformed == [kind |-> "malformed", order |-> JMissing, index |-> JMissing, rows |-> JMissing]

NullText == [kind |-> "null", order |-> JMissing, index |-> JMissing, rows |-> JMissing]

ObjectText(o, i, r) == [kind |-> "object", order |-> o, index |-> i, rows |-> r]

\* JSON.stringify({ order, index, rows }) of an array, a number and an array.
Stringify(o, i, r) == ObjectText(JArray(o), JNumber(i), JArray(r))

\* if (saved): null and '' are falsy.
Truthy(saved) == saved.kind \notin {"absent", "empty"}

\* JSON.parse(saved) throws.
ParseThrows(saved) == saved.kind = "malformed"

\* The check without its test of the order's length.
IsValidSnapshotAnyOrder(parsed) ==
    /\ parsed.kind = "object"
    /\ parsed.rows.t = "array"
    /\ Len(parsed.rows.a) > 0
    /\ parsed.order.t = "array"
    /\ parsed.index.t = "number"

\* The condition of the if around the restore: parsed is the value JSON.parse
\* returned.
IsValidSnapshot(parsed) ==
    /\ parsed.kind = "object"
    /\ parsed.rows.t = "array"
    /\ Len(parsed.rows.a) > 0
    /\ parsed.order.t = "array"
    /\ Len(parsed.order.a) > 0
    /\ parsed.index.t = "number"

(***************************************************************************)
(* State of one page (one process) and of the browser's storage            *)
(***************************************************************************)

VARIABLES
    storage,      \* the localStorage item under STORAGE_KEY (outlives the page)
    strict,       \* the build runs the mount effects twice (StrictMode, development)
    pc,           \* position in the mount effects: restore1, persist1, restore2, persist2; then idle
    loading,      \* useState(true)
    rows,         \* useState([])
    order,        \* useState([])
    index,        \* useState(0)
    revealed,     \* useState(false)
    restoredRef,  \* useRef(false)
    pending,      \* state updates queued by an effect or callback, applied by the next render
    effectPending,\* the persist effect is scheduled for the render just committed
    requests,     \* the Papa.parse downloads this page started, each pending, complete or error
    resultData,   \* result.data of the download that completed last on this page
    lastOp        \* the step taken last

vars == <<storage, strict, pc, loading, rows, order, index, revealed, restoredRef,
          pending, effectPending, requests, resultData, lastOp>>

\* No queued state update.
NoUpdate == [kind |-> "none", rows |-> <<>>, order |-> <<>>, index |-> 0]

\* Two tracks of a stored snapshot.
StoredTracks ==
    << [id |-> "1", Artist |-> <<"A">>, Title |-> <<"T">>, URL |-> <<"h", "1">>, Year |-> <<"9">>],
       [id |-> "2", Artist |-> <<"b">>, Title |-> <<>>, URL |-> <<"h", "2">>, Year |-> <<"8">>] >>

\* What the storage can hold when a page first opens: nothing, text that is not
\* a snapshot, and snapshot objects as any writer of the key can have left them.
InitialItems ==
    { NoItem, EmptyText, Malformed, NullText }
    \cup { ObjectText(JArray(o), JNumber(i), JArray(StoredTracks)) :
             o \in { <<1, 0>>, <<0, 0>>, <<5, 0>> }, i \in {-1, 0, 1, 5} }
    \cup { ObjectText(JArray(<<>>), JNumber(0), JArray(StoredTracks)),
           ObjectText(JArray(<<0>>), JNumber(0), JArray(<<>>)),
           ObjectText(JArray(<<1, 0>>), JMissing, JArray(StoredTracks)),
           ObjectText(JArray(<<1, 0>>), JString, JArray(StoredTracks)),
           ObjectText(JString, JNumber(0), JArray(StoredTracks)),
           ObjectText(JArray(<<1, 0>>), JNumber(0), JMissing) }

\* The state of a page whose first render is committed and whose effects have
\* not run yet.
FreshPage ==
    /\ pc = "restore1"
    /\ loading = TRUE
    /\ rows = <<>>
    /\ order = <<>>
    /\ index = 0
    /\ revealed = FALSE
    /\ restoredRef = FALSE
    /\ pending = NoUpdate
    /\ effectPending = FALSE
    /\ requests = <<>>
    /\ resultData = <<>>

Init ==
    /\ storage \in InitialItems
    /\ strict \in BOOLEAN
    /\ FreshPage
    /\ lastOp = "open"

(***************************************************************************)
(* Rendering                                                               *)
(***************************************************************************)

\* const current = rows[order[index]] is defined.
HasCurrent(r, o, i) ==
    /\ i \in 0 .. Len(o) - 1
    /\ o[i + 1] \in 0 .. Len(r) - 1

\* The Reveal button is rendered.
ShowReveal(ld, r, o, i, rev) == ~ld /\ HasCurrent(r, o, i) /\ ~rev

\* The Next button rendered beside Reveal, whether revealed or not.
ShowNextUnrevealed(ld, r, o, i, rev) == ~ld /\ HasCurrent(r, o, i)

\* The Next button is rendered.
ShowNext(ld, r, o, i, rev) == ~ld /\ HasCurrent(r, o, i) /\ rev

\* A dependency list without the index: [order, rows].
DepsChangedNoIndex(oldIndex, newIndex, newArrays) == newArrays

\* The persist effect's dependency list [order, index, rows] changed between two
\* renders: an array set anew is a new object, the index is compared by value.
DepsChanged(oldIndex, newIndex, newArrays) == newArrays \/ oldIndex # newIndex

(***************************************************************************)
(* The mount effects                                                       *)
(***************************************************************************)

\* The stored item is read, parses and passes the check: the restore branch is
\* taken.
Restorable(saved) == Truthy(saved) /\ ~ParseThrows(saved) /\ IsValidSnapshot(saved)

\* The mount effect without its guard.
NeverRestored(ref) == FALSE

\* if (restoredRef.current) return;
AlreadyRestored(ref) == ref

\* The position after an effect of the mount sequence.
AfterEffect(at) ==
    CASE at = "restore1" -> "persist1"
      [] at = "persist1" -> IF strict THEN "restore2" ELSE "idle"
      [] at = "restore2" -> "persist2"
      [] OTHER -> "idle"

\* The first effect: restore the stored session, or start the CSV download.
RestoreEffect ==
    /\ pc \in {"restore1", "restore2"}
    /\ pc' = AfterEffect(pc)
    /\ lastOp' = "restore"
    /\ UNCHANGED <<resultData, strict, loading, rows, order, index, revealed, effectPending>>
    /\ IF AlreadyRestored(restoredRef)
       THEN UNCHANGED <<storage, restoredRef, pending, requests>>
       ELSE /\ restoredRef' = TRUE
            /\ IF Restorable(storage)
               THEN /\ pending' = [kind |-> "restore", rows |-> storage.rows.a,
                                   order |-> storage.order.a, index |-> storage.index.n]
                    /\ storage' = Stringify(storage.order.a, storage.index.n, storage.rows.a)
                    /\ UNCHANGED requests
               ELSE /\ requests' = Append(requests, "pending")
                    /\ UNCHANGED <<storage, pending>>

\* The second effect: write the snapshot of the state of the render it belongs
\* to. It runs at mount and after every render that changed its dependencies.
PersistEffect ==
    /\ \/ /\ pc \in {"persist1", "persist2"}
          /\ pc' = AfterEffect(pc)
          /\ UNCHANGED effectPending
       \/ /\ pc = "idle"
          /\ effectPending
          /\ effectPending' = FALSE
          /\ UNCHANGED pc
    /\ storage' = Stringify(order, index, rows)
    /\ lastOp' = "persist"
    /\ UNCHANGED <<resultData, strict, loading, rows, order, index, revealed, restoredRef,
                   pending, requests>>

\* The render of the queued updates without setLoading(false).
RenderStillLoading ==
    /\ pc = "idle"
    /\ pending.kind # "none"
    /\ ~effectPending
    /\ rows' = pending.rows
    /\ order' = pending.order
    /\ index' = pending.index
    /\ pending' = NoUpdate
    /\ effectPending' = DepsChanged(index, pending.index, TRUE)
    /\ lastOp' = "render"
    /\ UNCHANGED <<resultData, storage, strict, pc, revealed, restoredRef, requests,
                   loading>>

\* The render that applies the queued updates (setOrder, setIndex, setRows,
\* setLoading(false)); effects scheduled earlier have run before it.
Render ==
    /\ pc = "idle"
    /\ pending.kind # "none"
    /\ ~effectPending
    /\ rows' = pending.rows
    /\ order' = pending.order
    /\ index' = pending.index
    /\ loading' = FALSE
    /\ pending' = NoUpdate
    /\ effectPending' = DepsChanged(index, pending.index, TRUE)
    /\ lastOp' = "render"
    /\ UNCHANGED <<resultData, storage, strict, pc, revealed, restoredRef, requests>>

(***************************************************************************)
(* The CSV download                                                        *)
(***************************************************************************)

\* complete: (result) => { ... } for one pending download.
Complete ==
    /\ pc = "idle"
    /\ \E k \in DOMAIN requests, data \in CsvData :
         /\ requests[k] = "pending"
         /\ requests' = [requests EXCEPT ![k] = "complete"]
         /\ resultData' = data
         /\ LET mapped == MapRows(data) IN
            \E ord \in shuffle(IndexArray(mapped)) :
              /\ pending' = [kind |-> "load", rows |-> mapped, order |-> ord, index |-> 0]
              /\ storage' = Stringify(ord, 0, mapped)
    /\ lastOp' = "complete"
    /\ UNCHANGED <<strict, pc, loading, rows, order, index, revealed, restoredRef,
                   effectPending>>

\* A failed download handled as a finished one without rows.
FetchErrorAsEmpty ==
    /\ pc = "idle"
    /\ \E k \in DOMAIN requests :
         /\ requests[k] = "pending"
         /\ requests' = [requests EXCEPT ![k] = "error"]
    /\ pending' = [kind |-> "load", rows |-> <<>>, order |-> <<>>, index |-> 0]
    /\ lastOp' = "error"
    /\ UNCHANGED <<resultData, storage, strict, pc, loading, rows, order, index, revealed,
                   restoredRef, effectPending>>

\* A download fails: the options given to Papa.parse hold no error callback,
\* so nothing of the page is called.
FetchError ==
    /\ pc = "idle"
    /\ \E k \in DOMAIN requests :
         /\ requests[k] = "pending"
         /\ requests' = [requests EXCEPT ![k] = "error"]
    /\ lastOp' = "error"
    /\ UNCHANGED <<resultData, storage, strict, pc, loading, rows, order, index, revealed,
                   restoredRef, pending, effectPending>>

(***************************************************************************)
(* Commands of the page. A click runs its handler, the render of the       *)
(* updates it queued and the effects of that render in one task; an effect *)
(* still scheduled from the render before runs first.                      *)
(***************************************************************************)

\* The storage after the effects of a click's render: the persist effect runs
\* if it was scheduled or its dependencies changed; written is what the
\* handler itself wrote otherwise.
AfterClick(written, o, i, r, changed) ==
    IF effectPending \/ changed THEN Stringify(o, i, r) ELSE written

\* The increment without the clamp.
UpdatedIndexUnclamped(prevIndex, o) == prevIndex + 1

\* Math.min(prevIndex + 1, Math.max(0, order.length - 1))
UpdatedIndex(prevIndex, o) == Min(prevIndex + 1, Max(0, Len(o) - 1))

\* startNew without setIndex(0), writing the index as it stands.
startNewKeepsIndex ==
    /\ pc = "idle"
    /\ lastOp' = "startNew"
    /\ UNCHANGED <<resultData, strict, pc, loading, rows, restoredRef, pending, requests,
                   index>>
    /\ IF Len(rows) = 0
       THEN UNCHANGED <<storage, order, revealed, effectPending>>
       ELSE \E ord \in shuffle(IndexArray(rows)) :
              /\ order' = ord
              /\ revealed' = FALSE
              /\ storage' = Stringify(ord, index, rows)
              /\ effectPending' = FALSE

\* startNew, from the Start New Session button (always rendered).
startNew ==
    /\ pc = "idle"
    /\ lastOp' = "startNew"
    /\ UNCHANGED <<resultData, strict, pc, loading, rows, restoredRef, pending, requests>>
    /\ IF Len(rows) = 0
       THEN UNCHANGED <<storage, order, index, revealed, effectPending>>
       ELSE \E ord \in shuffle(IndexArray(rows)) :
              /\ order' = ord
              /\ index' = 0
              /\ revealed' = FALSE
              /\ storage' = AfterClick(Stringify(ord, 0, rows), ord, 0, rows,
                                       DepsChanged(index, 0, TRUE))
              /\ effectPending' = FALSE

\* onClick={() => setRevealed(true)}, from the Reveal button.
Reveal ==
    /\ pc = "idle"
    /\ ShowReveal(loading, rows, order, index, revealed)
    /\ revealed' = TRUE
    /\ storage' = AfterClick(storage, order, index, rows, FALSE)
    /\ effectPending' = FALSE
    /\ lastOp' = "reveal"
    /\ UNCHANGED <<resultData, strict, pc, loading, rows, order, index, restoredRef, pending,
                   requests>>

\* next without setRevealed(false).
nextKeepsRevealed ==
    /\ pc = "idle"
    /\ ShowNext(loading, rows, order, index, revealed)
    /\ lastOp' = "next"
    /\ UNCHANGED <<resultData, strict, pc, loading, rows, order, restoredRef, pending,
                   requests, revealed>>
    /\ index' = UpdatedIndex(index, order)
    /\ storage' = AfterClick(storage, order, index', rows,
                             DepsChanged(index, index', FALSE))
    /\ effectPending' = FALSE

\* next, from the Next button.
next ==
    /\ pc = "idle"
    /\ ShowNext(loading, rows, order, index, revealed)
    /\ lastOp' = "next"
    /\ UNCHANGED <<resultData, strict, pc, loading, rows, order, restoredRef, pending, requests>>
    /\ IF Len(order) = 0
       THEN UNCHANGED <<storage, index, revealed, effectPending>>
       ELSE /\ revealed' = FALSE
            /\ index' = UpdatedIndex(index, order)
            /\ storage' = AfterClick(storage, order, index', rows,
                                     DepsChanged(index, index', FALSE))
            /\ effectPending' = FALSE

\* The page is reloaded between two tasks: a new page opens on the storage as
\* it is.
Reload ==
    /\ pc = "idle"
    /\ pc' = "restore1"
    /\ loading' = TRUE
    /\ rows' = <<>>
    /\ order' = <<>>
    /\ index' = 0
    /\ revealed' = FALSE
    /\ restoredRef' = FALSE
    /\ pending' = NoUpdate
    /\ effectPending' = FALSE
    /\ requests' = <<>>
    /\ resultData' = <<>>
    /\ lastOp' = "reload"
    /\ UNCHANGED <<storage, strict>>

Next ==
    \/ RestoreEffect
    \/ PersistEffect
    \/ Render
    \/ Complete
    \/ FetchError
    \/ startNew
    \/ Reveal
    \/ next
    \/ Reload

Spec == Init /\ [][Next]_vars

(***************************************************************************)
(* Properties                                                              *)
(***************************************************************************)

\* No state update is queued and every effect has run.
AtRest == pc = "idle" /\ pending.kind = "none" /\ ~effectPending

\* o holds each of 0 .. n-1 exactly once and nothing else.
IsPermutationOfIndices(o, n) ==
    /\ Len(o) = n
    /\ \A v \in 0 .. n - 1 : Cardinality({k \in 1 .. Len(o) : o[k] = v}) = 1

\* C1 (as claimed): in every reachable state, a non-empty PlayOrder has
\* 0 <= CurrentIndex < len(PlayOrder).
C1_IndexWithinOrder ==
    Len(order) > 0 => (0 <= index /\ index < Len(order))

\* C2 (as claimed): whenever loading has finished with a non-empty catalog, a
\* page opened on the storage as it is (a reload) restores exactly the rows,
\* order and index the page holds, and starts no download.
C2_ReloadRestoresHeldState ==
    (pc = "idle" /\ ~loading /\ Len(rows) > 0)
        => /\ Restorable(storage)
           /\ storage.rows.a = rows
           /\ storage.order.a = order
           /\ storage.index.n = index

\* C3 (as claimed): from the restore of a valid snapshot until the render that
\* applies it, the storage holds the order, index and rows that were restored.
C3_RestoreRoundTrip ==
    pending.kind = "restore"
        => storage = Stringify(pending.order, pending.index, pending.rows)

\* C4: whenever no state update is queued and all effects have run, the stored
\* item is the full snapshot {order, index, rows} of the state in memory.
C4_StoredEqualsStateAtRest ==
    AtRest => /\ storage.kind = "object"
              /\ storage.order = JArray(order)
              /\ storage.index = JNumber(index)
              /\ storage.rows = JArray(rows)

\* C4's case: Next has moved the index and the snapshot holds the new index.
C4_Witness ==
    AtRest /\ lastOp = "next" /\ index = 1 /\ storage.index = JNumber(1)

\* C5: every Advance sets CurrentIndex to min(CurrentIndex + 1, len - 1): it
\* never decreases, never passes the last position, stays put at the last
\* position, and changes nothing when the order is empty.
C5_AdvanceClamps ==
    [][lastOp' = "next"
         => /\ order' = order
            /\ index' >= index
            /\ index' <= Max(0, Len(order) - 1)
            /\ index < Len(order) - 1 => index' = index + 1
            /\ index = Len(order) - 1 => index' = index
            /\ Len(order) = 0 => index' = index]_vars

\* C5's case: with 3 tracks the cursor stands at 2 after a Next.
C5_Witness ==
    lastOp = "next" /\ Len(order) = 3 /\ Len(rows) = 3 /\ index = 2

\* C6: the order made by a finished load and by Start New Session is a
\* permutation of the catalog's indices 0 .. n-1.
C6_ShuffledOrderIsPermutation ==
    /\ pending.kind = "load"
         => IsPermutationOfIndices(pending.order, Len(pending.rows))
    /\ (lastOp = "startNew" /\ Len(rows) > 0)
         => IsPermutationOfIndices(order, Len(rows))

\* C6's case: Start New Session has shuffled 3 tracks into another order.
C6_Witness ==
    lastOp = "startNew" /\ Len(rows) = 3 /\ order = <<2, 0, 1>>

\* The claim's condition on the stored item, in its own words: it parses, rows
\* and order are non-empty sequences, index is a number.
C7_PassesValidation(item) ==
    /\ item.kind \notin {"absent", "empty", "malformed", "null"}
    /\ item.rows.t = "array" /\ item.rows.a # <<>>
    /\ item.order.t = "array" /\ item.order.a # <<>>
    /\ item.index.t = "number"

\* C7: the restore effect adopts the stored item exactly when it passes the
\* validation; for any other item it does what it does with no item: nothing
\* is adopted, the state and the storage stay, one download is started.
C7_RestoreIffValid ==
    [][pc = "restore1"
         => IF C7_PassesValidation(storage)
            THEN /\ pending' = [kind |-> "restore", rows |-> storage.rows.a,
                                order |-> storage.order.a, index |-> storage.index.n]
                 /\ requests' = <<>>
            ELSE /\ pending' = NoUpdate
                 /\ requests' = <<"pending">>
                 /\ UNCHANGED <<storage, loading, rows, order, index, revealed>>]_vars

\* C7's case: a stored snapshot with an empty order was read and the download
\* started instead.
C7_Witness ==
    /\ lastOp = "restore"
    /\ storage = ObjectText(JArray(<<>>), JNumber(0), JArray(StoredTracks))
    /\ requests = <<"pending">>
    /\ pending = NoUpdate

\* C8: a second run of the mount effect changes nothing; a page starts at
\* most one download; once the effect has run without starting a download (it
\* adopted a snapshot), the page never starts one.
C8_RestoreRunsOnce ==
    [][/\ pc = "restore2"
            => UNCHANGED <<storage, loading, rows, order, index, revealed,
                           restoredRef, pending, requests>>
       /\ Len(requests') <= 1
       /\ (restoredRef /\ requests = <<>>) => requests' = <<>>]_vars

\* C8's case: the effect has run a second time on a page that adopted a snapshot.
C8_Witness ==
    strict /\ pc = "persist2" /\ lastOp = "restore" /\ pending.kind = "restore"

\* A download of this page has failed.
FetchFailed == \E k \in DOMAIN requests : requests[k] = "error"

\* C9 (as claimed): after a failed download the page comes to rest with an
\* empty catalog, an empty order, index 0 and loading finished.
C9_FailureEndsLoading ==
    (FetchFailed /\ AtRest)
        => (~loading /\ rows = <<>> /\ order = <<>> /\ index = 0)

\* C9 (amended): after a failed download the catalog and the order are empty,
\* the index is 0, no update is queued, and the page is still loading.
C9_FailureKeepsLoading ==
    FetchFailed
        => (loading /\ rows = <<>> /\ order = <<>> /\ index = 0
            /\ pending.kind = "none")

\* C9's case: the download has just failed and the page is at rest, loading.
C9_Witness ==
    lastOp = "error" /\ FetchFailed /\ AtRest /\ loading

\* C10: Next is issued only with a current track and Revealed true, Reveal
\* only with a current track and Revealed false; Revealed is false after Next,
\* after a Start New Session that reshuffles and when a page opens, and only
\* Reveal makes it true: so a Reveal lies before every Next since the last
\* Next, Start New Session or startup.
C10_RevealBeforeEveryAdvance ==
    [][/\ lastOp' = "next"
            => (revealed /\ ~loading /\ HasCurrent(rows, order, index) /\ ~revealed')
       /\ lastOp' = "reveal"
            => (~revealed /\ ~loading /\ HasCurrent(rows, order, index))
       /\ (lastOp' = "startNew" /\ Len(rows) > 0) => ~revealed'
       /\ lastOp' = "reload" => ~revealed'
       /\ (~revealed /\ revealed') => lastOp' = "reveal"]_vars

\* C10's case: a Next has been issued (after a Reveal) and moved the cursor.
C10_Witness ==
    lastOp = "next" /\ ~revealed /\ index = 1 /\ Len(order) = 2

\* C11: Revealed is false right after every Next and after every Start New
\* Session that reshuffles; the stored item holds order, index and rows and
\* nothing of Revealed, and Revealed is false throughout every startup, up to
\* and including the render that shows the restored or freshly loaded session.
C11_RevealedResetAndNotStored ==
    /\ lastOp = "next" => ~revealed
    /\ (lastOp = "startNew" /\ Len(rows) > 0) => ~revealed
    /\ DOMAIN storage = {"kind", "order", "index", "rows"}
    /\ (loading \/ lastOp = "render") => ~revealed

\* C11's case: a Next has just been issued (from a revealed card) on a page
\* that restored its session, and the card is hidden again.
C11_Witness ==
    lastOp = "next" /\ ~revealed /\ requests = <<>> /\ storage.kind = "object"

\* C12 (as claimed): in every reachable state the order is a permutation of
\* the catalog's indices, and with an empty catalog the order is empty and
\* there is no current track.
C12_OrderIsPermutationOfCatalog ==
    /\ IsPermutationOfIndices(order, Len(rows))
    /\ rows = <<>> => (order = <<>> /\ ~HasCurrent(rows, order, index))

\* C13: Start New Session with an empty catalog changes neither the state nor
\* the storage; with a non-empty catalog it leaves the catalog as it is, sets
\* the index to 0, replaces the order, and the stored item then holds the new
\* order, index 0 and the same rows.
C13_StartNewFrame ==
    [][lastOp' = "startNew"
         => IF rows = <<>>
            THEN UNCHANGED <<storage, loading, rows, order, index, revealed,
                             pending, effectPending, requests>>
            ELSE /\ rows' = rows
                 /\ index' = 0
                 /\ IsPermutationOfIndices(order', Len(rows))
                 /\ storage' = ObjectText(JArray(order'), JNumber(0), JArray(rows))
                 /\ UNCHANGED <<loading, pending, requests, restoredRef>>]_vars

\* C13's case: Start New Session has reshuffled a restored catalog of 2
\* tracks: the rows are the stored ones, the cursor is at 0 and the stored item
\* holds the new order.
C13_Witness ==
    /\ lastOp = "startNew"
    /\ rows = StoredTracks
    /\ index = 0
    /\ order = <<0, 1>>
    /\ storage = ObjectText(JArray(<<0, 1>>), JNumber(0), JArray(StoredTracks))

\* C14: the render of a load that found no usable rows leaves an empty
\* catalog, an empty order, index 0, loading finished and no current track;
\* in that state Reveal and Next cannot be issued, and no step of the page
\* (Start New Session included) changes catalog, order, index or loading.
C14_EmptyLoadIsTerminal ==
    [][/\ (lastOp' = "render" /\ pending.kind = "load" /\ pending.rows = <<>>)
            => /\ rows' = <<>> /\ order' = <<>> /\ index' = 0
               /\ ~loading'
               /\ ~HasCurrent(rows', order', index')
       /\ (~loading /\ rows = <<>> /\ lastOp' # "reload")
            => /\ lastOp' \notin {"reveal", "next"}
               /\ UNCHANGED <<rows, order, index, loading>>]_vars

\* C14's case: Start New Session was issued after a load without usable rows
\* had been rendered.
C14_Witness ==
    /\ lastOp = "startNew"
    /\ requests = <<"complete">>
    /\ ~loading
    /\ rows = <<>>

\* The URL cell the claim speaks of: the first non-empty of the recognized
\* column names.
C15_UrlCell(r) ==
    IF r.URL # <<>> THEN r.URL ELSE IF r.Url # <<>> THEN r.Url ELSE r.url

\* s with every whitespace character removed.
RECURSIVE C15_WithoutWhitespace(_)
C15_WithoutWhitespace(s) ==
    IF s = <<>> THEN <<>>
    ELSE IF Head(s) \in {" ", "\t", "\n"} THEN C15_WithoutWhitespace(Tail(s))
    ELSE <<Head(s)>> \o C15_WithoutWhitespace(Tail(s))

\* The 1-based positions of the raw rows whose URL is not empty once its
\* whitespace is removed.
C15_UsablePositions(data) ==
    {k \in 1 .. Len(data) : C15_WithoutWhitespace(C15_UrlCell(data[k])) # <<>>}

\* C15: the catalog of a finished load holds one track per raw row with a
\* usable URL, in the raw order: its length is the number of such rows, and
\* its m-th track comes from the m-th such row, carries that row's 1-based raw
\* position as its id and the row's URL without whitespace.
C15_CatalogKeepsUsableRows ==
    pending.kind = "load"
        => LET K == C15_UsablePositions(resultData) IN
           /\ Len(pending.rows) = Cardinality(K)
           /\ \A m \in 1 .. Len(pending.rows) :
                \E k \in K :
                  /\ Cardinality({j \in K : j <= k}) = m
                  /\ pending.rows[m].id = ToString(k)
                  /\ pending.rows[m].URL =
                        C15_WithoutWhitespace(C15_UrlCell(resultData[k]))

\* C15's case: of 3 raw rows the second was dropped, and the ids of the
\* catalog are 1 and 3.
C15_Witness ==
    /\ pending.kind = "load"
    /\ Len(resultData) = 3
    /\ Len(pending.rows) = 2
    /\ pending.rows[1].id = "1"
    /\ pending.rows[2].id = "3"
    /\ pending.rows[2].URL = <<"h", "2">>

\* C16: on a page that loaded its catalog freshly (its restore adopted
\* nothing and its download completed) with at least one track, once the load
\* is rendered a current track exists in every state, whatever Reveal, Next
\* and Start New Session steps were taken: the "no more cards" state is never
\* shown.
C16_FreshSessionAlwaysHasCurrent ==
    (requests = <<"complete">> /\ ~loading /\ rows # <<>>)
        => /\ HasCurrent(rows, order, index)
           /\ index \in 0 .. Len(order) - 1

\* C16's case: on a freshly loaded catalog of one track, Next was issued at
\* the last (only) position and the track is still current.
C16_Witness ==
    /\ requests = <<"complete">>
    /\ lastOp = "next"
    /\ Len(rows) = 1
    /\ index = 0
    /\ HasCurrent(rows, order, index)

\* The arrangements of 0 .. n-1: n! of them.
C17_Arrangements(n) ==
    {o \in [1 .. n -> 0 .. n - 1] : Cardinality({o[x] : x \in 1 .. n}) = n}

\* C17: for the catalog of every reachable state, the orders shuffle can
\* return for its indices (those Start New Session and a finished load choose
\* among) are exactly the n! arrangements of 0 .. n-1, and every call leaves
\* the array it was given as it was.
C17_EveryPermutationPossible ==
    LET n == Len(rows)
        given == IndexArray(rows)
    IN  /\ shuffle(given) = C17_Arrangements(n)
        /\ \A c \in ShuffleCall(given) :
             c.arr = given /\ c.returned \in C17_Arrangements(n)

\* C17's case: Start New Session has put 3 tracks into the reverse order.
C17_Witness ==
    lastOp = "startNew" /\ Len(rows) = 3 /\ order = <<2, 1, 0>> /\ index = 0

====
